---- MODULE Spec2Model ----
(***************************************************************************)
(* Model of the filefreezer client core: filename resolution over the      *)
(* encrypted catalog, whole-file removal, version pruning (single file and *)
(* regex batch), the authenticated request dispatcher, and the chunked     *)
(* file reader.                                                            *)
(*                                                                         *)
(* Strings that the code inspects (file names, regular expressions, the    *)
(* max-version argument) are sequences of one-character strings.           *)
(***************************************************************************)
EXTENDS Integers, Sequences, FiniteSets, TLC

VARIABLES
    op,         \* the public method being executed, "idle" between calls
    pc,         \* position inside the method
    args,       \* the arguments of the call
    allFiles,   \* the catalog returned by GetAllFileHashes in this call
    fetches,    \* number of GetAllFileHashes calls made by this call
    i,          \* 1-based index of the next catalog entry of the range loop
    foundFile,  \* the FileInfo returned by GetFileInfoByFilename
    requests,   \* RunAuthRequest invocations of this call, in order
    result,     \* "running", "ok", or the return site of the error
    file,       \* forEachChunk: the bytes of the local file
    chunkSize,  \* forEachChunk: chunkSize argument
    localChunkCount, \* forEachChunk: localChunkCount argument
    offset,     \* forEachChunk: read position of the open file
    ci,         \* forEachChunk: loop variable i
    visited,    \* forEachChunk: the (chunkNumber, chunk) pairs handed to eachFunc
    eachFunc,   \* forEachChunk: the behaviour of the supplied callback
    readErr,    \* forEachChunk: err of the latest io.ReadAtLeast
    cpc,        \* forEachChunk: position
    cres,       \* forEachChunk: "running", "ok" or the return site of the error
    session     \* State: HostURI, AuthToken, CryptoHash, ServerCapabilities

fvars == <<op, pc, args, allFiles, fetches, i, foundFile, requests, result>>
cvars == <<file, chunkSize, localChunkCount, offset, ci, visited, eachFunc,
           readErr, cpc, cres>>
vars == <<op, pc, args, allFiles, fetches, i, foundFile, requests, result,
          file, chunkSize, localChunkCount, offset, ci, visited, eachFunc,
          readErr, cpc, cres, session>>

----------------------------------------------------------------------------
(* Bounds of the model *)

MaxFiles == 2
MaxVer == 3
MaxMinVersion == 1
MaxN == 4
MaxC == 3
MaxCount == 3

----------------------------------------------------------------------------
(* Input alphabets *)

Names == { <<"a">>, <<"b">> }

Patterns == { <<"a">>, <<".", "*">>, <<"*">> }

Sentinel == <<"H", "~">>

MaxVersionStrs == { Sentinel, <<"0">>, <<"1">>, <<"-", "1">>, <<"x">> }

----------------------------------------------------------------------------
(* strconv.Atoi: an optional sign followed by one or more decimal digits *)

Digits == { "0", "1", "2", "3", "4", "5", "6", "7", "8", "9" }

DigitVal(c) ==
    CASE c = "0" -> 0 [] c = "1" -> 1 [] c = "2" -> 2 [] c = "3" -> 3
      [] c = "4" -> 4 [] c = "5" -> 5 [] c = "6" -> 6 [] c = "7" -> 7
      [] c = "8" -> 8 [] c = "9" -> 9

RECURSIVE DecVal(_)
DecVal(s) ==
    IF s = <<>> THEN 0
    ELSE DecVal(SubSeq(s, 1, Len(s) - 1)) * 10 + DigitVal(s[Len(s)])

Atoi(s) ==
    LET signed == s # <<>> /\ s[1] \in { "+", "-" }
        body   == IF signed THEN Tail(s) ELSE s
    IN  IF body = <<>> \/ \E k \in 1..Len(body) : body[k] \notin Digits
        THEN [err |-> TRUE, val |-> 0]
        ELSE [err |-> FALSE,
              val |-> IF signed /\ s[1] = "-" THEN 0 - DecVal(body) ELSE DecVal(body)]

----------------------------------------------------------------------------
(* regexp.Compile / Regexp.MatchString for literals, '.', and postfix '*'; *)
(* MatchString is an unanchored search.                                    *)

Compile(p) ==
    [err |-> (p # <<>> /\ p[1] = "*")]

RECURSIVE MatchHere(_, _), MatchStar(_, _, _)
MatchHere(p, s) ==
    IF p = <<>> THEN TRUE
    ELSE IF Len(p) >= 2 /\ p[2] = "*" THEN MatchStar(p[1], Tail(Tail(p)), s)
    ELSE IF s # <<>> /\ (p[1] = "." \/ p[1] = s[1]) THEN MatchHere(Tail(p), Tail(s))
    ELSE FALSE

MatchStar(c, p, s) ==
    \/ MatchHere(p, s)
    \/ /\ s # <<>>
       /\ (c = "." \/ c = s[1])
       /\ MatchStar(c, p, Tail(s))

MatchString(p, s) ==
    \E k \in 1..(Len(s) + 1) : MatchHere(p, SubSeq(s, k, Len(s)))

----------------------------------------------------------------------------
(* The catalog.  File names are stored encrypted; a stored name is either  *)
(* the encryption of a plaintext name or a value that does not decrypt.    *)

Encrypt(name) == <<"#">> \o name

Corrupt == <<"?">>

DecryptString(c) ==
    IF c # <<>> /\ c[1] = "#"
    THEN [err |-> FALSE, val |-> Tail(c)]
    ELSE [err |-> TRUE, val |-> <<>>]

StoredNames == { Encrypt(n) : n \in Names } \cup { Corrupt }

FileInfo(id, name, ver) ==
    [FileID |-> id, FileName |-> name, VersionNumber |-> ver]

\* the zero value of filefreezer.FileInfo
ZeroFileInfo == FileInfo(0, <<>>, 0)

\* catalogs as the server returns them: file ids are unique
Catalogs ==
    UNION { { [k \in 1..n |-> FileInfo(k, nm[k], vr[k])] :
                nm \in [1..n -> StoredNames], vr \in [1..n -> 0..MaxVer] } :
            n \in 0..MaxFiles }

\* GetAllFileHashes either fails or yields the catalog
FetchOutcomes == { [err |-> TRUE, files |-> <<>>] }
                 \cup { [err |-> FALSE, files |-> c] : c \in Catalogs }

----------------------------------------------------------------------------
(* RunAuthRequest.  The environment's answer to one invocation:            *)
(*   client : getHTTPClient succeeds or fails                              *)
(*   do     : "resp" a response was obtained; "errNil" client.Do failed    *)
(*            with no response; "errResp" client.Do failed with a response *)
(*            (redirect policy)                                            *)
(*   read   : reading the response body succeeds or fails                  *)
(*   status : HTTP status code                                             *)
(*   body   : response payload                                             *)

StatusOK == 200

StatusCodes == { 200, 201, 404 }

BodyTrue == "{\"status\":true}"
BodyFalse == "{\"status\":false}"
BodyGarbage == "<html>"

Bodies == { BodyTrue, BodyFalse, BodyGarbage }

Answer(client, do, read, status, body) ==
    [client |-> client, do |-> do, read |-> read, status |-> status, body |-> body]

Answers ==
    { Answer(FALSE, "resp", TRUE, 200, BodyTrue),
      Answer(TRUE, "errNil", TRUE, 200, BodyTrue),
      Answer(TRUE, "errResp", TRUE, 404, BodyGarbage),
      Answer(TRUE, "resp", FALSE, 200, BodyTrue) }
    \cup { Answer(TRUE, "resp", TRUE, s, b) : s \in StatusCodes, b \in Bodies }

Returned(out, site, status, body) ==
    [out |-> out, site |-> site, status |-> status, body |-> body]

\* variant: every 2xx status counts as success
RunAuthRequestAny2xx(a) ==
    IF ~a.client THEN Returned("err", "client", 0, "")
    ELSE IF a.do = "errNil" THEN Returned("panic", "do", 0, "")
    ELSE IF a.do = "errResp" THEN Returned("err", "do", a.status, "")
    ELSE IF ~a.read THEN Returned("err", "read", 0, "")
    ELSE IF a.status \div 100 # 2 THEN Returned("err", "status", a.status, a.body)
    ELSE Returned("body", "", a.status, a.body)

\* out = "body": (body, nil); out = "err": (nil, error built at `site`);
\* in an error, status and body are the status text and the payload that
\* the message is formatted with
\* out = "panic": nil pointer dereference of resp at the client.Do error path
RunAuthRequest(a) ==
    IF ~a.client THEN Returned("err", "client", 0, "")
    ELSE IF a.do = "errNil" THEN Returned("panic", "do", 0, "")
    ELSE IF a.do = "errResp" THEN Returned("err", "do", a.status, "")
    ELSE IF ~a.read THEN Returned("err", "read", 0, "")
    ELSE IF a.status # StatusOK THEN Returned("err", "status", a.status, a.body)
    ELSE Returned("body", "", a.status, a.body)

\* json.Unmarshal into models.FileDeleteVersionsResponse
UnmarshalStatus(body) ==
    CASE body = BodyTrue  -> [err |-> FALSE, Status |-> TRUE]
      [] body = BodyFalse -> [err |-> FALSE, Status |-> FALSE]
      [] OTHER            -> [err |-> TRUE, Status |-> FALSE]

NoBody == [MinVersion |-> 0, MaxVersion |-> 0, nil |-> TRUE]

\* variant: the two bounds are stored in each other's field
PutReqSwapped(minVersion, maxVersion) ==
    [MinVersion |-> maxVersion, MaxVersion |-> minVersion, nil |-> FALSE]

\* models.FileDeleteVersionsRequest
PutReq(minVersion, maxVersion) ==
    [MinVersion |-> minVersion, MaxVersion |-> maxVersion, nil |-> FALSE]

\* one logged invocation of RunAuthRequest: its arguments, the environment's
\* answer, and what it returned
Request(method, path, fileID, body, answer) ==
    [method |-> method, path |-> path, fileID |-> fileID, body |-> body,
     answer |-> answer, ret |-> RunAuthRequest(answer)]

----------------------------------------------------------------------------
(* Arguments *)

NoArgs ==
    [filename |-> <<>>, pattern |-> <<>>, minVersion |-> 0, maxVersion |-> 0,
     maxVersionStr |-> <<>>, dryRun |-> FALSE, fileID |-> 0]

----------------------------------------------------------------------------
(* The decisions of the code, one definition per condition *)

\* variant: a decryption error is not acted on
DecryptFailedIgnored(d) == FALSE

\* file.go:33, 85, 197  if err != nil after DecryptString
DecryptFailed(d) == d.err

\* variant: only the lengths of the names are compared
NameEqualsLength(decryptedFilename, filename) ==
    Len(decryptedFilename) = Len(filename)

\* file.go:37  decryptedFilename == filename
NameEquals(decryptedFilename, filename) == decryptedFilename = filename

\* variant: the flag is read the wrong way round
SendsInverted(dryRun) == dryRun

\* variant: the dryRun flag is not consulted
SendsAlways(dryRun) == TRUE

\* file.go:55, 91, 161, 220  if !dryRun
Sends(dryRun) == ~dryRun

\* variant: > in place of >=
RangeRejectedStrict(maxVersion, fi) == maxVersion > fi.VersionNumber

\* file.go:156  maxVersion >= fi.CurrentVersion.VersionNumber
RangeRejected(maxVersion, fi) == maxVersion >= fi.VersionNumber

\* variant: the sentinel is resolved once, against the first catalog entry
RelativeMaxOfFirst(fi) == allFiles[1].VersionNumber - 1

\* file.go:204  maxVersion = fi.CurrentVersion.VersionNumber - 1
RelativeMax(fi) == fi.VersionNumber - 1

\* file.go:202-210  the max version of one matched file
\* fatal = TRUE: log.Fatalf terminates the process
ResolveMaxVersion(maxVersionStr, fi) ==
    IF maxVersionStr = Sentinel
    THEN [fatal |-> FALSE, val |-> RelativeMax(fi)]
    ELSE [fatal |-> Atoi(maxVersionStr).err, val |-> Atoi(maxVersionStr).val]

\* variant: the range is not checked
RangeSkippedNever(maxVersion, fi) == FALSE

\* variant: > in place of >=
RangeSkippedStrict(maxVersion, fi) == maxVersion > fi.VersionNumber

\* file.go:215  maxVersion >= fi.CurrentVersion.VersionNumber
RangeSkipped(maxVersion, fi) == maxVersion >= fi.VersionNumber

\* variant: the status flag of the response is not checked
DeleteVersionsOutcomeNoStatus(a) ==
    LET r == RunAuthRequest(a)
    IN  IF r.out = "panic" THEN "Panic"
        ELSE IF r.out = "err" THEN "ErrRequest"
        ELSE IF UnmarshalStatus(r.body).err THEN "ErrUnmarshal"
        ELSE "ok"

\* file.go:163-176, 226-239  the outcome of one ranged-delete invocation
DeleteVersionsOutcome(a) ==
    LET r == RunAuthRequest(a)
    IN  IF r.out = "panic" THEN "Panic"
        ELSE IF r.out = "err" THEN "ErrRequest"
        ELSE IF UnmarshalStatus(r.body).err THEN "ErrUnmarshal"
        ELSE IF ~UnmarshalStatus(r.body).Status THEN "ErrStatus"
        ELSE "ok"

\* file.go:57-60, 93-96, 110-113  the outcome of one DELETE /api/file/{id}
DeleteFileOutcome(a) ==
    LET r == RunAuthRequest(a)
    IN  IF r.out = "panic" THEN "Panic"
        ELSE IF r.out = "err" THEN "ErrRequest"
        ELSE "ok"

\* file.go:130-139, 255-264  the outcome of a GET whose body is unmarshalled
GetOutcome(a) ==
    LET r == RunAuthRequest(a)
    IN  IF r.out = "panic" THEN "Panic"
        ELSE IF r.out = "err" THEN "ErrRequest"
        ELSE IF r.body = BodyGarbage THEN "ErrUnmarshal"
        ELSE "ok"

----------------------------------------------------------------------------
(* State after construction: no call in progress *)

FInit ==
    /\ op = "idle"
    /\ pc = "idle"
    /\ args = NoArgs
    /\ allFiles = <<>>
    /\ fetches = 0
    /\ i = 1
    /\ foundFile = ZeroFileInfo
    /\ requests = <<>>
    /\ result = "running"

\* the method returns: the error (or nil) reaches the caller
Finish(r) ==
    /\ pc' = "done"
    /\ result' = r

\* GetAllFileHashes as the first statement of a method; `next` is the
\* position after a successful fetch
Enter(o, a, next) ==
    /\ op = "idle"
    /\ op' = o
    /\ args' = a
    /\ fetches' = fetches + 1
    /\ \E f \in FetchOutcomes :
         IF f.err
         THEN /\ Finish("ErrFetch")
              /\ UNCHANGED allFiles
         ELSE /\ allFiles' = f.files
              /\ pc' = next
              /\ result' = "running"
    /\ UNCHANGED <<i, foundFile, requests>>

----------------------------------------------------------------------------
(* GetFileInfoByFilename, and the methods that begin with it *)

CallGetFileInfoByFilename ==
    /\ \E fn \in Names :
         Enter("GetFileInfoByFilename", [NoArgs EXCEPT !.filename = fn], "resolve")
    /\ UNCHANGED <<cvars, session>>

CallRmFile ==
    /\ \E fn \in Names, dry \in BOOLEAN :
         Enter("RmFile", [NoArgs EXCEPT !.filename = fn, !.dryRun = dry], "resolve")
    /\ UNCHANGED <<cvars, session>>

CallGetFileVersions ==
    /\ \E fn \in Names :
         Enter("GetFileVersions", [NoArgs EXCEPT !.filename = fn], "resolve")
    /\ UNCHANGED <<cvars, session>>

CallRmFileVersions ==
    /\ \E fn \in Names, mn \in 0..MaxMinVersion, mx \in -1..(MaxVer + 1),
          dry \in BOOLEAN :
         Enter("RmFileVersions",
               [NoArgs EXCEPT !.filename = fn, !.minVersion = mn,
                              !.maxVersion = mx, !.dryRun = dry],
               "resolve")
    /\ UNCHANGED <<cvars, session>>

\* file.go:31-42  one iteration of the scan, or the fall-through after it
ResolveStep ==
    /\ pc = "resolve"
    /\ IF i > Len(allFiles)
       THEN /\ Finish("ErrNotFound")
            /\ UNCHANGED <<i, foundFile>>
       ELSE LET fi == allFiles[i]
                d  == DecryptString(fi.FileName)
            IN  IF DecryptFailed(d)
                THEN /\ Finish("ErrDecrypt")
                     /\ UNCHANGED <<i, foundFile>>
                ELSE IF NameEquals(d.val, args.filename)
                THEN /\ foundFile' = fi
                     /\ IF op = "GetFileInfoByFilename"
                        THEN Finish("ok")
                        ELSE pc' = "resolved" /\ UNCHANGED result
                     /\ UNCHANGED i
                ELSE /\ i' = i + 1
                     /\ UNCHANGED <<pc, result, foundFile>>
    /\ UNCHANGED <<op, args, allFiles, fetches, requests>>
    /\ UNCHANGED <<cvars, session>>

\* file.go:55-65
RmFileRemove ==
    /\ pc = "resolved"
    /\ op = "RmFile"
    /\ IF Sends(args.dryRun)
       THEN \E a \in Answers :
              /\ requests' = Append(requests,
                    Request("DELETE", "file", foundFile.FileID, NoBody, a))
              /\ Finish(DeleteFileOutcome(a))
       ELSE /\ Finish("ok")
            /\ UNCHANGED requests
    /\ UNCHANGED <<op, args, allFiles, fetches, i, foundFile>>
    /\ UNCHANGED <<cvars, session>>

\* file.go:128-141
GetFileVersionsRequest ==
    /\ pc = "resolved"
    /\ op = "GetFileVersions"
    /\ \E a \in Answers :
         /\ requests' = Append(requests,
               Request("GET", "versions", foundFile.FileID, NoBody, a))
         /\ Finish(GetOutcome(a))
    /\ UNCHANGED <<op, args, allFiles, fetches, i, foundFile>>
    /\ UNCHANGED <<cvars, session>>

\* file.go:152-178
RmFileVersionsPrune ==
    /\ pc = "resolved"
    /\ op = "RmFileVersions"
    /\ IF RangeRejected(args.maxVersion, foundFile)
       THEN /\ Finish("ErrInvalidRange")
            /\ UNCHANGED requests
       ELSE IF Sends(args.dryRun)
       THEN \E a \in Answers :
              /\ requests' = Append(requests,
                    Request("DELETE", "versions", foundFile.FileID,
                            PutReq(args.minVersion, args.maxVersion), a))
              /\ Finish(DeleteVersionsOutcome(a))
       ELSE /\ Finish("ok")
            /\ UNCHANGED requests
    /\ UNCHANGED <<op, args, allFiles, fetches, i, foundFile>>
    /\ UNCHANGED <<cvars, session>>

----------------------------------------------------------------------------
(* The regex batch methods *)

\* file.go:72-81, 184-193  catalog fetch, then regexp.Compile
EnterRx(o, a) ==
    /\ op = "idle"
    /\ op' = o
    /\ args' = a
    /\ fetches' = fetches + 1
    /\ \E f \in FetchOutcomes :
         IF f.err
         THEN /\ Finish("ErrFetch")
              /\ UNCHANGED allFiles
         ELSE /\ allFiles' = f.files
              /\ IF Compile(a.pattern).err
                 THEN Finish("ErrCompile")
                 ELSE pc' = "scan" /\ result' = "running"
    /\ UNCHANGED <<i, foundFile, requests>>

CallRmRxFiles ==
    /\ \E p \in Patterns, dry \in BOOLEAN :
         EnterRx("RmRxFiles", [NoArgs EXCEPT !.pattern = p, !.dryRun = dry])
    /\ UNCHANGED <<cvars, session>>

CallRmRxFileVersions ==
    /\ \E p \in Patterns, mn \in 0..MaxMinVersion, ms \in MaxVersionStrs,
          dry \in BOOLEAN :
         EnterRx("RmRxFileVersions",
                 [NoArgs EXCEPT !.pattern = p, !.minVersion = mn,
                                !.maxVersionStr = ms, !.dryRun = dry])
    /\ UNCHANGED <<cvars, session>>

\* file.go:83-103  one iteration of the loop, or the return after it
RmRxFilesStep ==
    /\ pc = "scan"
    /\ op = "RmRxFiles"
    /\ IF i > Len(allFiles)
       THEN /\ Finish("ok")
            /\ UNCHANGED <<i, requests>>
       ELSE LET fi == allFiles[i]
                d  == DecryptString(fi.FileName)
            IN  IF DecryptFailed(d)
                THEN /\ Finish("ErrDecrypt")
                     /\ UNCHANGED <<i, requests>>
                ELSE IF MatchString(args.pattern, d.val) /\ Sends(args.dryRun)
                THEN \E a \in Answers :
                       /\ requests' = Append(requests,
                             Request("DELETE", "file", fi.FileID, NoBody, a))
                       /\ IF DeleteFileOutcome(a) = "ok"
                          THEN i' = i + 1 /\ UNCHANGED <<pc, result>>
                          ELSE Finish(DeleteFileOutcome(a)) /\ UNCHANGED i
                ELSE /\ i' = i + 1
                     /\ UNCHANGED <<pc, result, requests>>
    /\ UNCHANGED <<op, args, allFiles, fetches, foundFile>>
    /\ UNCHANGED <<cvars, session>>

\* file.go:195-246  one iteration of the loop, or the return after it
RmRxFileVersionsStep ==
    /\ pc = "scan"
    /\ op = "RmRxFileVersions"
    /\ IF i > Len(allFiles)
       THEN /\ Finish("ok")
            /\ UNCHANGED <<i, requests>>
       ELSE LET fi == allFiles[i]
                d  == DecryptString(fi.FileName)
                mv == ResolveMaxVersion(args.maxVersionStr, fi)
            IN  IF DecryptFailed(d)
                THEN /\ Finish("ErrDecrypt")
                     /\ UNCHANGED <<i, requests>>
                ELSE IF ~MatchString(args.pattern, d.val)
                THEN /\ i' = i + 1
                     /\ UNCHANGED <<pc, result, requests>>
                ELSE IF mv.fatal
                THEN /\ Finish("Fatal")
                     /\ UNCHANGED <<i, requests>>
                ELSE IF RangeSkipped(mv.val, fi) \/ ~Sends(args.dryRun)
                THEN /\ i' = i + 1
                     /\ UNCHANGED <<pc, result, requests>>
                ELSE \E a \in Answers :
                       /\ requests' = Append(requests,
                             Request("DELETE", "versions", fi.FileID,
                                     PutReq(args.minVersion, mv.val), a))
                       /\ IF DeleteVersionsOutcome(a) = "ok"
                          THEN i' = i + 1 /\ UNCHANGED <<pc, result>>
                          ELSE Finish(DeleteVersionsOutcome(a)) /\ UNCHANGED i
    /\ UNCHANGED <<op, args, allFiles, fetches, foundFile>>
    /\ UNCHANGED <<cvars, session>>

----------------------------------------------------------------------------
(* The methods that address a file by id *)

\* file.go:108-118
CallRmFileByID ==
    /\ op = "idle"
    /\ \E id \in 1..MaxFiles, a \in Answers :
         /\ op' = "RmFileByID"
         /\ args' = [NoArgs EXCEPT !.fileID = id]
         /\ requests' = Append(requests, Request("DELETE", "file", id, NoBody, a))
         /\ Finish(DeleteFileOutcome(a))
    /\ UNCHANGED <<allFiles, fetches, i, foundFile>>
    /\ UNCHANGED <<cvars, session>>

\* file.go:252-267
CallGetMissingChunksForFile ==
    /\ op = "idle"
    /\ \E id \in 1..MaxFiles, a \in Answers :
         /\ op' = "GetMissingChunksForFile"
         /\ args' = [NoArgs EXCEPT !.fileID = id]
         /\ requests' = Append(requests, Request("GET", "file", id, NoBody, a))
         /\ Finish(GetOutcome(a))
    /\ UNCHANGED <<allFiles, fetches, i, foundFile>>
    /\ UNCHANGED <<cvars, session>>

\* the caller takes the result; the next call starts from a fresh frame
Return ==
    /\ pc = "done"
    /\ result \notin { "Fatal", "Panic" }
    /\ op' = "idle"
    /\ pc' = "idle"
    /\ args' = NoArgs
    /\ allFiles' = <<>>
    /\ fetches' = 0
    /\ i' = 1
    /\ foundFile' = ZeroFileInfo
    /\ requests' = <<>>
    /\ result' = "running"
    /\ UNCHANGED <<cvars, session>>

----------------------------------------------------------------------------
(* forEachChunk *)

Bytes == { 0, 1 }

Files == UNION { [1..n -> Bytes] : n \in 0..MaxN }

\* the callback answers `what` at chunk number `at` and (true, nil) elsewhere
EachFuncs ==
    { [what |-> "continue", at |-> 0] }
    \cup { [what |-> w, at |-> k] : w \in { "stop", "error" }, k \in 0..(MaxCount - 1) }

EachFuncAnswer(f, chunkNumber) ==
    IF f.what # "continue" /\ f.at = chunkNumber THEN f.what ELSE "continue"

Min(a, b) == IF a < b THEN a ELSE b

\* io.ReadAtLeast(f, buffer, min) with len(buffer) = min, on a file whose
\* read position is off: the bytes read, their count, and err
ReadAtLeast(f, off, min) ==
    LET n == Min(min, Len(f) - off)
    IN  [readCount |-> n,
         data |-> SubSeq(f, off + 1, off + n),
         err |-> IF n >= min THEN "nil"
                 ELSE IF n = 0 THEN "EOF"
                 ELSE "ErrUnexpectedEOF"]

\* variant: i != localChunkCount
NotLastChunkOffByOne(idx, count) == idx # count

\* part_000:188  i+1 != localChunkCount
NotLastChunk(idx, count) == idx + 1 # count

\* part_000:185-194  the return site taken after a read, "" when none is
ReadFailure(err, idx, count) ==
    IF err = "nil" THEN ""
    ELSE IF err = "ErrUnexpectedEOF"
    THEN IF NotLastChunk(idx, count) THEN "ErrTruncated" ELSE ""
    ELSE "ErrRead"

\* variant: the boolean returned by the callback is not consulted
AfterEachFuncNoBreak(ans) ==
    IF ans = "error" THEN "return err" ELSE "next"

\* part_000:198-204  what the loop does with the callback's (contLoop, err):
\* err is returned as it is, a false contLoop leaves the loop
AfterEachFunc(ans) ==
    IF ans = "error" THEN "return err"
    ELSE IF ans = "stop" THEN "break"
    ELSE "next"

CInit ==
    /\ file = <<>>
    /\ chunkSize = 1
    /\ localChunkCount = 0
    /\ offset = 0
    /\ ci = 0
    /\ visited = <<>>
    /\ eachFunc = [what |-> "continue", at |-> 0]
    /\ readErr = "nil"
    /\ cpc = "idle"
    /\ cres = "running"

CFinish(r) ==
    /\ cpc' = "done"
    /\ cres' = r

\* part_000:173-180  the buffer is allocated and the file opened
CallForEachChunk ==
    /\ cpc = "idle"
    /\ \E f \in Files, c \in 1..MaxC, n \in 0..MaxCount, e \in EachFuncs,
          opened \in BOOLEAN :
         /\ file' = f
         /\ chunkSize' = c
         /\ localChunkCount' = n
         /\ eachFunc' = e
         /\ IF opened
            THEN cpc' = "loop" /\ cres' = "running"
            ELSE CFinish("ErrOpen")
    /\ offset' = 0
    /\ ci' = 0
    /\ visited' = <<>>
    /\ readErr' = "nil"
    /\ UNCHANGED <<fvars, session>>

\* part_000:183-207  one iteration of the loop, or the return after it
ForEachChunkStep ==
    /\ cpc = "loop"
    /\ IF ~(ci < localChunkCount)
       THEN /\ CFinish("ok")
            /\ UNCHANGED <<offset, ci, visited, readErr>>
       ELSE \E fault \in BOOLEAN :
            LET rd   == ReadAtLeast(file, offset, chunkSize)
                err  == IF fault THEN "fault" ELSE rd.err
                n    == IF fault THEN 0 ELSE rd.readCount
                data == IF fault THEN <<>> ELSE rd.data
                fail == ReadFailure(err, ci, localChunkCount)
                ans  == EachFuncAnswer(eachFunc, ci)
            IN  /\ readErr' = err
                /\ offset' = offset + n
                /\ IF fail # ""
                   THEN /\ CFinish(fail)
                        /\ UNCHANGED <<ci, visited>>
                   ELSE /\ visited' = Append(visited, [chunkNumber |-> ci, chunk |-> data])
                        /\ IF AfterEachFunc(ans) = "return err"
                           THEN CFinish("ErrEachFunc") /\ UNCHANGED ci
                           ELSE IF AfterEachFunc(ans) = "break"
                           THEN CFinish("ok") /\ UNCHANGED ci
                           ELSE ci' = ci + 1 /\ UNCHANGED <<cpc, cres>>
    /\ UNCHANGED <<file, chunkSize, localChunkCount, eachFunc>>
    /\ UNCHANGED <<fvars, session>>

CReturn ==
    /\ cpc = "done"
    /\ file' = <<>>
    /\ chunkSize' = 1
    /\ localChunkCount' = 0
    /\ offset' = 0
    /\ ci' = 0
    /\ visited' = <<>>
    /\ eachFunc' = [what |-> "continue", at |-> 0]
    /\ readErr' = "nil"
    /\ cpc' = "idle"
    /\ cres' = "running"
    /\ UNCHANGED <<fvars, session>>

----------------------------------------------------------------------------
(* Authenticate and the session fields of State *)

HostURIs == { "https://host" }

LoginBody == "{\"token\":\"t\",\"cryptoHash\":\"h\",\"capabilities\":\"c\"}"

\* the environment's answer to the login POST:
\*   client : getHTTPClient succeeds or fails
\*   do     : "resp" a response was obtained; "errNil" / "errResp"
\*            client.PostForm failed without / with a response
\*   read   : reading the response body succeeds or fails
Logins ==
    { Answer(FALSE, "resp", TRUE, 200, LoginBody),
      Answer(TRUE, "errNil", TRUE, 200, LoginBody),
      Answer(TRUE, "errResp", TRUE, 404, BodyGarbage),
      Answer(TRUE, "resp", FALSE, 200, LoginBody) }
    \cup { Answer(TRUE, "resp", TRUE, st, b) :
             st \in StatusCodes, b \in { LoginBody, BodyGarbage } }

\* json.Unmarshal into models.UserLoginResponse
UnmarshalLogin(body) ==
    IF body = LoginBody
    THEN [err |-> FALSE, Token |-> "t", CryptoHash |-> "h", Capabilities |-> "c"]
    ELSE [err |-> TRUE, Token |-> "", CryptoHash |-> "", Capabilities |-> ""]

\* part_000:26-59  the return site of Authenticate, "ok" for nil
AuthenticateOutcome(l) ==
    IF ~l.client THEN "ErrClient"
    ELSE IF l.do # "resp" THEN "ErrRequest"
    ELSE IF ~l.read THEN "ErrRead"
    ELSE IF l.status # StatusOK THEN "ErrStatus"
    ELSE IF UnmarshalLogin(l.body).err THEN "ErrUnmarshal"
    ELSE "ok"

Session(hostURI, token, cryptoHash, capabilities) ==
    [HostURI |-> hostURI, AuthToken |-> token, CryptoHash |-> cryptoHash,
     ServerCapabilities |-> capabilities]

\* variant: HostURI is stored before the login request is made
SessionAfterEager(s, hostURI, l) ==
    IF AuthenticateOutcome(l) = "ok"
    THEN Session(hostURI, UnmarshalLogin(l.body).Token,
                 UnmarshalLogin(l.body).CryptoHash,
                 UnmarshalLogin(l.body).Capabilities)
    ELSE [s EXCEPT !.HostURI = hostURI]

\* part_000:61-65  the session fields when Authenticate returns
SessionAfter(s, hostURI, l) ==
    IF AuthenticateOutcome(l) = "ok"
    THEN Session(hostURI, UnmarshalLogin(l.body).Token,
                 UnmarshalLogin(l.body).CryptoHash,
                 UnmarshalLogin(l.body).Capabilities)
    ELSE s

\* a State value before any login
SInit == session = Session("", "", "", "")

\* part_000:24-68
Authenticate ==
    /\ op = "idle"
    /\ \E h \in HostURIs, l \in Logins :
         /\ op' = "Authenticate"
         /\ session' = SessionAfter(session, h, l)
         /\ Finish(AuthenticateOutcome(l))
    /\ UNCHANGED <<args, allFiles, fetches, i, foundFile, requests>>
    /\ UNCHANGED cvars

----------------------------------------------------------------------------
(* Specifications *)

Init == FInit /\ CInit /\ SInit

Next ==
    \/ CallGetFileInfoByFilename
    \/ CallRmFile
    \/ CallGetFileVersions
    \/ CallRmFileVersions
    \/ ResolveStep
    \/ RmFileRemove
    \/ GetFileVersionsRequest
    \/ RmFileVersionsPrune
    \/ CallRmRxFiles
    \/ CallRmRxFileVersions
    \/ RmRxFilesStep
    \/ RmRxFileVersionsStep
    \/ CallRmFileByID
    \/ CallGetMissingChunksForFile
    \/ Return

Spec == Init /\ [][Next]_vars

\* the methods of State together with Authenticate
AuthNext ==
    \/ Authenticate
    \/ Next

AuthSpec == Init /\ [][AuthNext]_vars

ChunkNext ==
    \/ CallForEachChunk
    \/ ForEachChunkStep
    \/ CReturn

ChunkSpec == Init /\ [][ChunkNext]_vars

----------------------------------------------------------------------------
(* Vocabulary of the properties *)

\* the entry decrypts
Decrypts(fi) == fi.FileName # Corrupt

\* the plaintext name of an entry that decrypts
Plain(fi) == Tail(fi.FileName)

\* the entry decrypts and its name matches the pattern of the call
Matched(fi) == Decrypts(fi) /\ MatchString(args.pattern, Plain(fi))

\* the server answered 200 with status true
Accepted(a) ==
    a.client /\ a.do = "resp" /\ a.read /\ a.status = 200 /\ a.body = BodyTrue

\* the server answered with a non-200 status, or with 200 and status false
Rejected(a) ==
    /\ a.client /\ a.do = "resp" /\ a.read
    /\ a.status # 200 \/ a.body = BodyFalse

\* positions of the DELETE invocations in the log
Deletes == { k \in 1..Len(requests) : requests[k].method = "DELETE" }

\* positions of the ranged deletes addressed to file id
RangedDeletesTo(id) ==
    { k \in 1..Len(requests) :
        /\ requests[k].method = "DELETE"
        /\ requests[k].path = "versions"
        /\ requests[k].fileID = id }

\* the catalog was fetched and the pattern compiled
Scanning == result \notin { "ErrFetch", "ErrCompile" }

\* the entry is matched and its max version, resolved from the argument of
\* the call, is >= its current version number
SkippedEntry(fi) ==
    /\ Matched(fi)
    /\ IF args.maxVersionStr = Sentinel
       THEN fi.VersionNumber - 1 >= fi.VersionNumber
       ELSE /\ ~Atoi(args.maxVersionStr).err
            /\ Atoi(args.maxVersionStr).val >= fi.VersionNumber

\* positions of the entries whose decrypted name is the requested one
NameHits == { j \in 1..Len(allFiles) :
                Decrypts(allFiles[j]) /\ Plain(allFiles[j]) = args.filename }

\* positions of the entries that do not decrypt
CorruptAt == { j \in 1..Len(allFiles) : ~Decrypts(allFiles[j]) }

\* the server answered 200 and the body was read
Ok200(a) == a.client /\ a.do = "resp" /\ a.read /\ a.status = 200

\* the ids of the matched entries, in catalog order
RECURSIVE MatchedIDs(_)
MatchedIDs(files) ==
    IF files = <<>> THEN <<>>
    ELSE IF Matched(Head(files))
    THEN <<Head(files).FileID>> \o MatchedIDs(Tail(files))
    ELSE MatchedIDs(Tail(files))

\* the ids of the matched entries that are not skipped, in catalog order
RECURSIVE PrunableIDs(_)
PrunableIDs(files) ==
    IF files = <<>> THEN <<>>
    ELSE IF Matched(Head(files)) /\ ~SkippedEntry(Head(files))
    THEN <<Head(files).FileID>> \o PrunableIDs(Tail(files))
    ELSE PrunableIDs(Tail(files))

\* the file ids of the logged invocations, in order
RequestIDs == [k \in 1..Len(requests) |-> requests[k].fileID]

Ceil(n, c) == (n + c - 1) \div c

RECURSIVE Concat(_)
Concat(chunks) ==
    IF chunks = <<>> THEN <<>>
    ELSE Concat(SubSeq(chunks, 1, Len(chunks) - 1)) \o chunks[Len(chunks)].chunk

----------------------------------------------------------------------------
(* C1: in RmFileVersions on a resolved file, maxVersion >= the file's      *)
(* current version number returns the invalid-range error and issues no    *)
(* request, dry run or not; maxVersion = current - 1 with every request    *)
(* answered 200 and status true returns nil.                               *)
C1_RangeCheck ==
    (op = "RmFileVersions" /\ pc = "done" /\ foundFile # ZeroFileInfo) =>
        /\ args.maxVersion >= foundFile.VersionNumber =>
              result = "ErrInvalidRange" /\ requests = <<>>
        /\ ( /\ args.maxVersion = foundFile.VersionNumber - 1
             /\ \A k \in 1..Len(requests) : Accepted(requests[k].answer) ) =>
              result = "ok"

C1_Witness ==
    /\ op = "RmFileVersions" /\ pc = "done"
    /\ foundFile # ZeroFileInfo
    /\ ~args.dryRun
    /\ args.maxVersion = foundFile.VersionNumber
    /\ result = "ErrInvalidRange"

(* C2: a call of RmFile, RmRxFiles, RmFileVersions or RmRxFileVersions     *)
(* with dryRun = true never invokes the dispatcher with DELETE, and has    *)
(* performed its one catalog fetch.                                        *)
C2_DryRun ==
    ( /\ op \in { "RmFile", "RmRxFiles", "RmFileVersions", "RmRxFileVersions" }
      /\ args.dryRun ) =>
        /\ Deletes = {}
        /\ fetches = 1

C2_Witness ==
    /\ op = "RmRxFileVersions" /\ pc = "done" /\ result = "ok"
    /\ args.dryRun
    /\ fetches = 1
    /\ \E j \in 1..Len(allFiles) :
         /\ Matched(allFiles[j])
         /\ args.maxVersionStr = <<"0">>
         /\ allFiles[j].VersionNumber > 0

(* C3 as claimed: after a ranged delete of RmRxFileVersions was refused    *)
(* (non-200, or status false) the call still issues a ranged delete for    *)
(* every later matched, non-skipped entry.                                 *)
C3_AsClaimed ==
    (op = "RmRxFileVersions" /\ pc = "done") =>
        \A k \in 1..Len(requests) :
            Rejected(requests[k].answer) =>
                \A j \in (requests[k].fileID + 1)..Len(allFiles) :
                    ( /\ Matched(allFiles[j])
                      /\ ~ResolveMaxVersion(args.maxVersionStr, allFiles[j]).fatal
                      /\ ResolveMaxVersion(args.maxVersionStr, allFiles[j]).val
                            < allFiles[j].VersionNumber )
                    => RangedDeletesTo(allFiles[j].FileID) # {}

(* C3 amended: a refused ranged delete (non-200, or status false) ends     *)
(* RmRxFileVersions at once with an error: the refused request is the last *)
(* one of the call, and no request is issued for any later entry.          *)
C3_AbortsOnRejection ==
    op = "RmRxFileVersions" =>
        \A k \in 1..Len(requests) :
            Rejected(requests[k].answer) =>
                /\ k = Len(requests)
                /\ pc = "done"
                /\ result \in { "ErrRequest", "ErrStatus" }
                /\ \A j \in (requests[k].fileID + 1)..Len(allFiles) :
                      RangedDeletesTo(allFiles[j].FileID) = {}

C3_Witness ==
    /\ op = "RmRxFileVersions" /\ pc = "done"
    /\ Len(requests) = 1
    /\ requests[1].fileID = 1
    /\ requests[1].answer.status = 200
    /\ requests[1].answer.body = BodyFalse
    /\ Rejected(requests[1].answer)
    /\ Len(allFiles) >= 2
    /\ Matched(allFiles[2])
    /\ args.maxVersionStr = <<"0">>
    /\ allFiles[2].VersionNumber > 0

(* C4: under the relative sentinel a matched file whose current version    *)
(* number is 0 is skipped: no ranged delete is addressed to it and no      *)
(* request carries a negative max version.                                 *)
C4_SingleVersionSkipped ==
    (op = "RmRxFileVersions" /\ args.maxVersionStr = Sentinel) =>
        \A k \in 1..Len(requests) :
            /\ allFiles[requests[k].fileID].VersionNumber # 0
            /\ requests[k].body.MaxVersion >= 0

(* C5: in RmRxFileVersions a matched entry whose resolved max version is   *)
(* >= its current version number is passed over: no request is addressed   *)
(* to it, the call does not return at it, and a call in which every entry  *)
(* decrypts and every matched entry is such returns nil with no DELETE.    *)
C5_SilentSkip ==
    (op = "RmRxFileVersions" /\ Scanning) =>
        /\ \A j \in 1..Len(allFiles) :
              SkippedEntry(allFiles[j]) => RangedDeletesTo(allFiles[j].FileID) = {}
        /\ (pc = "done" /\ i <= Len(allFiles)) => ~SkippedEntry(allFiles[i])
        /\ ( /\ pc = "done"
             /\ \A j \in 1..Len(allFiles) :
                  /\ Decrypts(allFiles[j])
                  /\ Matched(allFiles[j]) => SkippedEntry(allFiles[j]) ) =>
              result = "ok" /\ Deletes = {}

C5_Witness ==
    /\ op = "RmRxFileVersions" /\ pc = "done" /\ result = "ok"
    /\ ~args.dryRun
    /\ Len(allFiles) = 2
    /\ SkippedEntry(allFiles[1])
    /\ allFiles[1].VersionNumber = 1
    /\ Matched(allFiles[2]) /\ ~SkippedEntry(allFiles[2])
    /\ RangedDeletesTo(1) = {}
    /\ RangedDeletesTo(2) # {}

(* C6: a non-dry-run RmRxFileVersions with the relative sentinel, over a   *)
(* catalog whose entries all decrypt and with every request answered 200   *)
(* and status true, returns nil, and each matched file with current        *)
(* version v >= 1 has received exactly one ranged delete, with body        *)
(* {minVersion, v - 1}.                                                    *)
C6_SentinelPerFile ==
    ( /\ op = "RmRxFileVersions" /\ pc = "done" /\ Scanning
      /\ args.maxVersionStr = Sentinel
      /\ ~args.dryRun
      /\ CorruptAt = {}
      /\ \A k \in 1..Len(requests) : Accepted(requests[k].answer) ) =>
        /\ result = "ok"
        /\ \A j \in 1..Len(allFiles) :
              (Matched(allFiles[j]) /\ allFiles[j].VersionNumber >= 1) =>
                  /\ Cardinality(RangedDeletesTo(allFiles[j].FileID)) = 1
                  /\ \A k \in RangedDeletesTo(allFiles[j].FileID) :
                        requests[k].body =
                            PutReq(args.minVersion, allFiles[j].VersionNumber - 1)

C6_Witness ==
    /\ op = "RmRxFileVersions" /\ pc = "done" /\ result = "ok"
    /\ args.maxVersionStr = Sentinel
    /\ ~args.dryRun
    /\ args.minVersion = 0
    /\ Len(allFiles) = 2
    /\ Matched(allFiles[1]) /\ allFiles[1].VersionNumber = 3
    /\ Matched(allFiles[2]) /\ allFiles[2].VersionNumber = 1
    /\ Len(requests) = 2
    /\ requests[1].fileID = 1 /\ requests[1].body = PutReq(0, 2)
    /\ requests[2].fileID = 2 /\ requests[2].body = PutReq(0, 0)

(* C7: GetFileInfoByFilename over a fetched catalog whose entries all      *)
(* decrypt returns the first entry, in catalog order, whose decrypted name *)
(* equals the requested name; when there is none it returns the not-found  *)
(* error, with no FileInfo, after examining every entry.                   *)
C7_FirstMatch ==
    ( /\ op = "GetFileInfoByFilename" /\ pc = "done" /\ result # "ErrFetch"
      /\ CorruptAt = {} ) =>
        IF NameHits # {}
        THEN /\ result = "ok"
             /\ \E j \in NameHits :
                  /\ \A h \in NameHits : j <= h
                  /\ foundFile = allFiles[j]
        ELSE /\ result = "ErrNotFound"
             /\ foundFile = ZeroFileInfo
             /\ i = Len(allFiles) + 1

C7_Witness ==
    /\ op = "GetFileInfoByFilename" /\ pc = "done" /\ result = "ok"
    /\ CorruptAt = {}
    /\ Len(allFiles) = 2
    /\ NameHits = { 2 }
    /\ foundFile = allFiles[2]

(* C8 as claimed: whenever some entry of the fetched catalog does not      *)
(* decrypt, GetFileInfoByFilename returns the decryption error and no      *)
(* FileInfo.                                                               *)
C8_AsClaimed ==
    ( /\ op = "GetFileInfoByFilename" /\ pc = "done" /\ result # "ErrFetch"
      /\ CorruptAt # {} ) =>
        result = "ErrDecrypt" /\ foundFile = ZeroFileInfo

(* C8 amended: GetFileInfoByFilename returns the decryption error and no   *)
(* FileInfo exactly when an entry that does not decrypt stands before      *)
(* every entry whose decrypted name equals the requested one (the sought   *)
(* file not yet reached, or absent); an undecryptable entry behind the     *)
(* first such entry is never decrypted and that entry is returned.         *)
C8_CorruptBeforeMatch ==
    ( /\ op = "GetFileInfoByFilename" /\ pc = "done" /\ result # "ErrFetch"
      /\ CorruptAt # {} ) =>
        IF \E c \in CorruptAt : \A h \in NameHits : c < h
        THEN result = "ErrDecrypt" /\ foundFile = ZeroFileInfo
        ELSE /\ result = "ok"
             /\ \E j \in NameHits :
                  /\ \A h \in NameHits : j <= h
                  /\ foundFile = allFiles[j]

C8_Witness ==
    /\ op = "GetFileInfoByFilename" /\ pc = "done"
    /\ result = "ErrDecrypt" /\ foundFile = ZeroFileInfo
    /\ Len(allFiles) = 2
    /\ CorruptAt = { 1 }
    /\ NameHits = { 2 }

(* C9: forEachChunk on an opened file of N bytes that reads without fault, *)
(* with chunk size C > 0, localChunkCount = ceil(N/C) and a callback that  *)
(* always continues, returns nil; the callback received chunk numbers      *)
(* 0 .. ceil(N/C)-1 in increasing order, the chunks concatenate to the     *)
(* file, every chunk but the last has length C and the last has length     *)
(* N mod C, or C when N mod C = 0.                                         *)
C9_RoundTrip ==
    ( /\ cpc = "done"
      /\ cres # "ErrOpen" /\ readErr # "fault"
      /\ eachFunc.what = "continue"
      /\ localChunkCount = Ceil(Len(file), chunkSize) ) =>
        /\ cres = "ok"
        /\ Len(visited) = localChunkCount
        /\ \A k \in 1..Len(visited) : visited[k].chunkNumber = k - 1
        /\ Concat(visited) = file
        /\ \A k \in 1..(Len(visited) - 1) : Len(visited[k].chunk) = chunkSize
        /\ visited # <<>> =>
              Len(visited[Len(visited)].chunk) =
                  IF Len(file) % chunkSize = 0 THEN chunkSize
                  ELSE Len(file) % chunkSize

C9_Witness ==
    /\ cpc = "done" /\ cres = "ok"
    /\ eachFunc.what = "continue"
    /\ Len(file) = 3 /\ chunkSize = 2
    /\ localChunkCount = 2
    /\ Len(visited) = 2
    /\ Len(visited[2].chunk) = 1

(* C10: forEachChunk on an opened file of N bytes that reads without       *)
(* fault, with C > 0, localChunkCount > ceil(N/C) and a callback that      *)
(* always continues, returns the truncated-file error ("nexpeced EOF"),    *)
(* whether or not N is a multiple of C.                                    *)
C10_Truncated ==
    ( /\ cpc = "done"
      /\ cres # "ErrOpen" /\ readErr # "fault"
      /\ eachFunc.what = "continue"
      /\ localChunkCount > Ceil(Len(file), chunkSize) ) =>
        cres = "ErrTruncated"

(* C11: once the callback answers "stop" at chunk i, forEachChunk returns  *)
(* nil, and once it answers with an error at chunk i, forEachChunk returns *)
(* that error; in both cases chunk i is the last chunk the callback is     *)
(* ever called with.                                                       *)
C11_VisitorProtocol ==
    \A k \in 1..Len(visited) :
        ( /\ eachFunc.what # "continue"
          /\ visited[k].chunkNumber = eachFunc.at ) =>
            /\ k = Len(visited)
            /\ cpc = "done"
            /\ cres = IF eachFunc.what = "stop" THEN "ok" ELSE "ErrEachFunc"

C11_Witness ==
    /\ cpc = "done" /\ cres = "ok"
    /\ eachFunc = [what |-> "stop", at |-> 1]
    /\ localChunkCount = 3
    /\ Len(file) = 3 /\ chunkSize = 1
    /\ Len(visited) = 2
    /\ visited[2].chunkNumber = 1

(* C12: RunAuthRequest returns a body as success only for HTTP status 200, *)
(* and for every response whose body was read it does so exactly when the  *)
(* status is 200; for any other status it returns an error and no body,    *)
(* the error carrying the response's status and payload.                   *)
C12_StatusContract ==
    \A k \in 1..Len(requests) :
        LET a == requests[k].answer
            r == requests[k].ret
        IN  /\ r.out = "body" => a.status = 200 /\ r.body = a.body
            /\ (a.client /\ a.do = "resp" /\ a.read) =>
                  /\ r.out = "body" <=> a.status = 200
                  /\ a.status # 200 =>
                        /\ r.out = "err"
                        /\ r.status = a.status
                        /\ r.body = a.body

C12_Witness ==
    /\ op = "RmFileByID" /\ pc = "done" /\ result = "ErrRequest"
    /\ Len(requests) = 1
    /\ requests[1].answer = Answer(TRUE, "resp", TRUE, 201, BodyTrue)
    /\ requests[1].ret = Returned("err", "status", 201, BodyTrue)

(* C13: when the HTTP round trip fails and no response is obtained,        *)
(* RunAuthRequest returns an error to its caller and the process goes on.  *)
C13_TransportFailure ==
    \A k \in 1..Len(requests) :
        (requests[k].answer.client /\ requests[k].answer.do = "errNil") =>
            /\ requests[k].ret.out = "err"
            /\ result # "Panic"

(* C14: RmRxFileVersions called with a maxVersionStr that is neither the   *)
(* sentinel nor an integer returns an error to its caller, whatever the    *)
(* catalog, and issues no ranged delete.                                   *)
C14_InvalidMaxVersion ==
    ( /\ op = "RmRxFileVersions" /\ pc = "done" /\ Scanning
      /\ args.maxVersionStr # Sentinel
      /\ Atoi(args.maxVersionStr).err ) =>
        /\ result \notin { "ok", "Fatal", "Panic" }
        /\ requests = <<>>

(* C15: a non-dry-run RmFileVersions on a resolved file with maxVersion    *)
(* below the current version number invokes the dispatcher exactly once,   *)
(* with DELETE on the versions of the resolved file id and the body        *)
(* {minVersion, maxVersion}; it returns nil exactly when the answer is 200 *)
(* with a body that parses and has status true, and a 200 answer with      *)
(* status false returns the failed-status error.                           *)
C15_SinglePrune ==
    ( /\ op = "RmFileVersions" /\ pc = "done" /\ foundFile # ZeroFileInfo
      /\ ~args.dryRun
      /\ args.maxVersion < foundFile.VersionNumber ) =>
        /\ Len(requests) = 1
        /\ requests[1].method = "DELETE"
        /\ requests[1].path = "versions"
        /\ requests[1].fileID = foundFile.FileID
        /\ requests[1].body.MinVersion = args.minVersion
        /\ requests[1].body.MaxVersion = args.maxVersion
        /\ ~requests[1].body.nil
        /\ result = "ok" <=> Accepted(requests[1].answer)
        /\ (Ok200(requests[1].answer) /\ requests[1].answer.body = BodyFalse) =>
              result = "ErrStatus"

C15_Witness ==
    /\ op = "RmFileVersions" /\ pc = "done" /\ result = "ErrStatus"
    /\ ~args.dryRun
    /\ args.minVersion = 1 /\ args.maxVersion = 2
    /\ foundFile.FileID = 2 /\ foundFile.VersionNumber = 3
    /\ Len(requests) = 1
    /\ requests[1].answer = Answer(TRUE, "resp", TRUE, 200, BodyFalse)

(* C16: a non-dry-run RmRxFiles over a catalog whose entries all decrypt,  *)
(* with every request answered 200, returns nil having issued exactly one  *)
(* DELETE /api/file/{id} per entry whose name matches, in catalog order,   *)
(* and none for the other entries; no request is issued before the one     *)
(* catalog fetch.                                                          *)
C16_RemoveByRegex ==
    op = "RmRxFiles" =>
        /\ requests # <<>> => fetches = 1
        /\ ( /\ pc = "done" /\ Scanning
             /\ ~args.dryRun
             /\ CorruptAt = {}
             /\ \A k \in 1..Len(requests) : Ok200(requests[k].answer) ) =>
              /\ result = "ok"
              /\ fetches = 1
              /\ RequestIDs = MatchedIDs(allFiles)
              /\ \A k \in 1..Len(requests) :
                    /\ requests[k].method = "DELETE"
                    /\ requests[k].path = "file"
                    /\ requests[k].body.nil

C16_Witness ==
    /\ op = "RmRxFiles" /\ pc = "done" /\ result = "ok"
    /\ ~args.dryRun
    /\ args.pattern = <<"a">>
    /\ Len(allFiles) = 2
    /\ ~Matched(allFiles[1])
    /\ Matched(allFiles[2])
    /\ RequestIDs = <<2>>

(* C17: every ranged delete invoked by RmFileVersions or RmRxFileVersions  *)
(* carries a max version strictly below the current version number that    *)
(* the catalog fetched in the same call gives for the target file.         *)
C17_BelowCurrent ==
    op \in { "RmFileVersions", "RmRxFileVersions" } =>
        \A k \in 1..Len(requests) :
            /\ requests[k].method = "DELETE"
            /\ requests[k].path = "versions"
            /\ requests[k].fileID \in 1..Len(allFiles)
            /\ requests[k].body.MaxVersion
                  < allFiles[requests[k].fileID].VersionNumber

C17_Witness ==
    /\ op = "RmRxFileVersions" /\ pc = "done" /\ result = "ok"
    /\ args.maxVersionStr = <<"1">>
    /\ Len(allFiles) = 2
    /\ allFiles[1].VersionNumber = 1
    /\ allFiles[2].VersionNumber = 2
    /\ Matched(allFiles[1]) /\ Matched(allFiles[2])
    /\ RequestIDs = <<2>>
    /\ requests[1].body.MaxVersion = 1

(* C18: a non-dry-run RmRxFiles or RmRxFileVersions that returns the       *)
(* decryption error does so at the first entry that does not decrypt; the  *)
(* DELETE requests it issued are exactly those for the matching (and, for  *)
(* versions, non-skipped) entries before that position, all of them        *)
(* accepted, and none addresses that position or a later one.  The call    *)
(* reaches that entry whenever every earlier request was accepted and no   *)
(* max-version parse failure ended the process.                            *)
C18_NotAtomic ==
    ( /\ op \in { "RmRxFiles", "RmRxFileVersions" }
      /\ pc = "done" /\ Scanning
      /\ ~args.dryRun ) =>
        /\ result = "ErrDecrypt" =>
              /\ i \in CorruptAt
              /\ \A c \in CorruptAt : i <= c
              /\ RequestIDs =
                    IF op = "RmRxFiles"
                    THEN MatchedIDs(SubSeq(allFiles, 1, i - 1))
                    ELSE PrunableIDs(SubSeq(allFiles, 1, i - 1))
              /\ \A k \in 1..Len(requests) :
                    /\ requests[k].method = "DELETE"
                    /\ requests[k].fileID < i
                    /\ requests[k].ret.out = "body"
        /\ ( /\ CorruptAt # {}
             /\ result # "Fatal"
             /\ \A k \in 1..Len(requests) :
                  IF op = "RmRxFiles" THEN Ok200(requests[k].answer)
                  ELSE Accepted(requests[k].answer) ) =>
              result = "ErrDecrypt"

C18_Witness ==
    /\ op = "RmRxFiles" /\ pc = "done" /\ result = "ErrDecrypt"
    /\ ~args.dryRun
    /\ Len(allFiles) = 2
    /\ Matched(allFiles[1])
    /\ CorruptAt = { 2 }
    /\ i = 2
    /\ RequestIDs = <<1>>
    /\ Ok200(requests[1].answer)

(* C19: the session fields HostURI, AuthToken, CryptoHash and              *)
(* ServerCapabilities change only in a step in which Authenticate returns  *)
(* nil; an Authenticate that returns an error, and every step of the       *)
(* resolve, remove, prune, list-versions, missing-chunk and dispatch       *)
(* methods, successful or not, leaves all four as they were.               *)
C19_SessionFrame ==
    [][ /\ session' # session =>
              op = "idle" /\ op' = "Authenticate" /\ result' = "ok"
        /\ (op = "idle" /\ op' = "Authenticate" /\ result' # "ok") =>
              session' = session
        /\ op' # "Authenticate" => session' = session ]_vars

C19_Witness ==
    /\ op = "Authenticate" /\ pc = "done"
    /\ result = "ErrStatus"
    /\ session = Session("https://host", "t", "h", "c")

====
